---- MODULE Spec2Model ----
(***************************************************************************)
(* ChessLock main process (src/main.js): the proctoring session flags, the *)
(* two polling timers, the warning window and the IPC handlers, as a state *)
(* machine.  One step is one run of the JavaScript event loop between two  *)
(* suspension points: a handler or timer callback up to its first await, a *)
(* probe returning into an awaiting callback, or the final continuation    *)
(* (last probe result, evaluation and the functions it calls).             *)
(* warningWindow.close() is taken to close the window at once; its         *)
(* 'closed' handler (line 475) then only repeats the assignment of null.   *)
(*                                                                         *)
(* Spec is the main process with probes that may return anything they can  *)
(* return.  ProbeSpec takes the probe functions and the window-open        *)
(* handler alone, one call on one command output or URL.  LiveSpec is the  *)
(* main process with fair scheduling and a violation that sets in for good.*)
(***************************************************************************)
EXTENDS Integers, FiniteSets, Sequences, Bags, TLC

\* Bounds of the model.
MaxInFlight == 2    \* callback invocations awaiting probes at the same time
MaxDisplays == 2    \* largest display count the display probe reports
MaxUsb == 1         \* largest external USB device count the USB probe reports
MaxWarnings == 2    \* warningsShown counts warning windows up to this value
MaxLines == 3       \* most lines of a system_profiler output given to the parser

VARIABLES
  proctorStarted,        \* main.js:80
  isShowingWarning,      \* main.js:78
  sessionTerminated,     \* main.js:79
  allowQuit,             \* main.js:74
  monitoringInterval,    \* main.js:75  timer handle, 0 for null
  resolveCheckInterval,  \* main.js:77  timer handle, 0 for null
  warningWindow,         \* main.js:73  window handle, 0 for null
  mainWindow,            \* main.js:72  the main BrowserWindow's properties
  timers,                \* intervals scheduled in the event loop: [id, task]
  windows,               \* warning BrowserWindows that exist: [id, issue]
  startTimeout,          \* the 100 ms setTimeout of start-proctor is pending
  quitTimeout,           \* the 200 ms setTimeout of end-proctor is pending
  exited,                \* app.quit() went through: the process is gone
  inflight,              \* bag of the async callbacks suspended at an await
  last,                  \* the step just taken: handler, window commands, log
  warningsShown,         \* number of warning windows created (up to MaxWarnings)
  call,                  \* one call of a probe function or of the window-open
                         \* handler, taken alone: its input and its result
  violationPersists      \* the environment: from now on every evaluation's
                         \* probe results show a violation

\* The main process.
process == <<proctorStarted, isShowingWarning, sessionTerminated, allowQuit,
             monitoringInterval, resolveCheckInterval, warningWindow, mainWindow,
             timers, windows, startTimeout, quitTimeout, exited, inflight, last,
             warningsShown>>

vars == <<process, call, violationPersists>>

\* The flags and handles the session is made of.
session == <<proctorStarted, isShowingWarning, sessionTerminated,
             monitoringInterval, resolveCheckInterval, warningWindow,
             timers, windows>>

NoIssue == ""

\* The spec's session state, read off the three flags.
SessionState ==
  IF sessionTerminated THEN "Terminated"
  ELSE IF ~proctorStarted THEN "Idle"
  ELSE IF isShowingWarning THEN "Warning"
  ELSE "Active"

(***************************************************************************)
(* Strings, with the JavaScript operations the probes use on them.         *)
(***************************************************************************)
charAt(s, i) == SubSeq(s, i, i)

\* s.includes(p)
includes(s, p) ==
  \E i \in 1..(Len(s) - Len(p) + 1) : SubSeq(s, i, i + Len(p) - 1) = p

UpperCase == "ABCDEFGHIJKLMNOPQRSTUVWXYZ"
LowerCase == "abcdefghijklmnopqrstuvwxyz"
isUpper(c) == \E i \in 1..Len(UpperCase) : charAt(UpperCase, i) = c
isLower(c) == \E i \in 1..Len(LowerCase) : charAt(LowerCase, i) = c
lowerChar(c) ==
  IF isUpper(c)
  THEN charAt(LowerCase, CHOOSE i \in 1..Len(UpperCase) : charAt(UpperCase, i) = c)
  ELSE c

\* s.toLowerCase()
RECURSIVE toLowerCase(_)
toLowerCase(s) ==
  IF Len(s) = 0 THEN "" ELSE lowerChar(charAt(s, 1)) \o toLowerCase(Tail(s))

isSpace(c) == c \in {" ", "\t", "\n", "\r"}

RECURSIVE trimStart(_)
trimStart(s) ==
  IF Len(s) > 0 /\ isSpace(charAt(s, 1)) THEN trimStart(Tail(s)) ELSE s

RECURSIVE trimEnd(_)
trimEnd(s) ==
  IF Len(s) > 0 /\ isSpace(charAt(s, Len(s)))
  THEN trimEnd(SubSeq(s, 1, Len(s) - 1))
  ELSE s

\* s.trim()
trim(s) == trimEnd(trimStart(s))

\* s.split('\n')
RECURSIVE split(_)
split(s) ==
  IF \E i \in 1..Len(s) : charAt(s, i) = "\n"
  THEN LET i == CHOOSE k \in 1..Len(s) :
                  /\ charAt(s, k) = "\n"
                  /\ \A j \in 1..(k - 1) : charAt(s, j) # "\n"
       IN <<SubSeq(s, 1, i - 1)>> \o split(SubSeq(s, i + 1, Len(s)))
  ELSE <<s>>

(***************************************************************************)
(* The probe functions (lines 24-166), over what execAsync gives them: the *)
(* promise rejects, or resolves with the command's standard output.        *)
(***************************************************************************)
ExecFailed == [failed |-> TRUE, stdout |-> ""]
Stdout(s) == [failed |-> FALSE, stdout |-> s]

\* checkZoomCamera whose outer catch reports Zoom running with the camera on
checkZoomCamera_failOpen(ps, ioreg, share, lsof) ==
  IF ps.failed
  THEN [zoomRunning |-> TRUE, cameraInUse |-> TRUE, screenSharing |-> FALSE]
  ELSE IF ~(Len(trim(ps.stdout)) > 0)
  THEN [zoomRunning |-> FALSE, cameraInUse |-> FALSE, screenSharing |-> FALSE]
  ELSE [zoomRunning |-> TRUE,
        cameraInUse |-> ~ioreg.failed /\ Len(trim(ioreg.stdout)) > 0,
        screenSharing |->
          IF share.failed THEN FALSE
          ELSE IF Len(trim(share.stdout)) > 0 THEN TRUE
          ELSE IF lsof.failed THEN FALSE
          ELSE Len(trim(lsof.stdout)) > 0]

\* checkZoomCamera whose camera lookup, when it fails, leaves the camera on
checkZoomCamera_cameraFailOpen(ps, ioreg, share, lsof) ==
  IF ps.failed
  THEN [zoomRunning |-> FALSE, cameraInUse |-> FALSE, screenSharing |-> FALSE]
  ELSE IF ~(Len(trim(ps.stdout)) > 0)
  THEN [zoomRunning |-> FALSE, cameraInUse |-> FALSE, screenSharing |-> FALSE]
  ELSE [zoomRunning |-> TRUE,
        cameraInUse |-> ioreg.failed \/ Len(trim(ioreg.stdout)) > 0,
        screenSharing |->
          IF share.failed THEN FALSE
          ELSE IF Len(trim(share.stdout)) > 0 THEN TRUE
          ELSE IF lsof.failed THEN FALSE
          ELSE Len(trim(lsof.stdout)) > 0]

\* checkZoomCamera (lines 24-70); ps, ioreg, share and lsof are the outcomes
\* of its four commands.  A rejected pgrep is caught at line 67; a rejected
\* ioreg at line 44; a rejected share or lsof command at line 62.
checkZoomCamera(ps, ioreg, share, lsof) ==
  IF ps.failed
  THEN [zoomRunning |-> FALSE, cameraInUse |-> FALSE, screenSharing |-> FALSE]
  ELSE IF ~(Len(trim(ps.stdout)) > 0)
  THEN [zoomRunning |-> FALSE, cameraInUse |-> FALSE, screenSharing |-> FALSE]
  ELSE [zoomRunning |-> TRUE,
        cameraInUse |-> ~ioreg.failed /\ Len(trim(ioreg.stdout)) > 0,
        screenSharing |->
          IF share.failed THEN FALSE
          ELSE IF Len(trim(share.stdout)) > 0 THEN TRUE
          ELSE IF lsof.failed THEN FALSE
          ELSE Len(trim(lsof.stdout)) > 0]

\* checkBluetooth (lines 86-101)
checkBluetooth(x) ==
  IF x.failed
  THEN [bluetoothEnabled |-> FALSE]
  ELSE [bluetoothEnabled |-> includes(toLowerCase(x.stdout), ": on")]

\* getUsbDeviceCount, line 133
internalPatterns ==
  {"hub", "internal", "built-in", "bluetooth", "apple", "host controller",
   "root hub", "usb bus", "usb 3", "usb 2", "usb3", "usb2", "bus", "touch bar",
   "ambient light sensor", "facetime", "headset", "card reader", "trackpad",
   "keyboard", "ibridge", "sensor", "controller"}

\* /^    [A-Za-z]/.test(line) && !/^      /.test(line), line 126
isDeviceLine(line) ==
  /\ Len(line) >= 5
  /\ SubSeq(line, 1, 4) = "    "
  /\ (isUpper(charAt(line, 5)) \/ isLower(charAt(line, 5)))
  /\ ~(Len(line) >= 6 /\ SubSeq(line, 1, 6) = "      ")

\* lines 131-142: the lower-cased, trimmed line contains no internal pattern
isExternal(line) ==
  ~\E pattern \in internalPatterns : includes(toLowerCase(trim(line)), pattern)

\* The loop of lines 124-144 over the lines still to read, then the check of
\* the last device (lines 147-149).
RECURSIVE countLines(_, _, _)
countLines(lines, externalDeviceCount, isExternalDevice) ==
  IF lines = <<>>
  THEN IF isExternalDevice THEN externalDeviceCount + 1 ELSE externalDeviceCount
  ELSE IF isDeviceLine(Head(lines))
  THEN countLines(Tail(lines),
                  IF isExternalDevice
                  THEN externalDeviceCount + 1
                  ELSE externalDeviceCount,
                  isExternal(Head(lines)))
  ELSE countLines(Tail(lines), externalDeviceCount, isExternalDevice)

\* getUsbDeviceCount (lines 104-157)
getUsbDeviceCount(x) ==
  IF x.failed
  THEN 0
  ELSE IF x.stdout = "" \/ trim(x.stdout) = "" \/ includes(x.stdout, "No USB")
  THEN 0
  ELSE countLines(split(x.stdout), 0, FALSE)

\* the handler given to setWindowOpenHandler (lines 232-238)
windowOpenHandler(url) ==
  IF includes(url, "chess.com") \/ includes(url, "buddyboardgames.com")
  THEN [action |-> "deny", loadURL |-> url]
  ELSE [action |-> "allow", loadURL |-> ""]

(***************************************************************************)
(* Probes: the values each probe can return to a tick.                     *)
(***************************************************************************)
\* screen.getAllDisplays().length
DisplayCounts == 1..MaxDisplays

\* What a command of checkZoomCamera can give: a rejected promise, the empty
\* line of echo "", or some output.
CommandOutcomes == {ExecFailed, Stdout("\n"), Stdout("412\n")}

\* The screenSharing field of checkZoomCamera's result is read by no tick or
\* handler: an invocation keeps the other two.
ZoomFlags(z) == [zoomRunning |-> z.zoomRunning, cameraInUse |-> z.cameraInUse]

ZoomResults ==
  { ZoomFlags(checkZoomCamera(ps, ioreg, share, lsof)) :
      ps \in CommandOutcomes, ioreg \in CommandOutcomes,
      share \in CommandOutcomes, lsof \in CommandOutcomes }

\* What the system_profiler pipeline of checkBluetooth can give.
BluetoothOutcomes ==
  {ExecFailed, Stdout(""), Stdout("          State: On\n"),
   Stdout("          State: Off\n"), Stdout("      Bluetooth Power: On\n")}

BluetoothResults == { checkBluetooth(x) : x \in BluetoothOutcomes }

\* checkUsbDevices with the comparison off by one
checkUsbDevices_offByOne(count) == [hasUsbDevices |-> count >= 0, count |-> count]

\* checkUsbDevices
checkUsbDevices(count) == [hasUsbDevices |-> count > 0, count |-> count]
UsbResults == { checkUsbDevices(n) : n \in 0..MaxUsb }

(***************************************************************************)
(* Evaluation of one invocation's four results (lines 409-426).            *)
(***************************************************************************)
hasDisplayIssue(r) == r.displayResult > 1
hasCameraIssue(r) == ~r.zoomResult.zoomRunning \/ ~r.zoomResult.cameraInUse
hasBluetoothIssue(r) == r.bluetoothResult.bluetoothEnabled
hasUsbIssue(r) == r.usbResult.hasUsbDevices

hasIssue(r) ==
  hasDisplayIssue(r) \/ hasCameraIssue(r) \/ hasBluetoothIssue(r) \/ hasUsbIssue(r)

\* issueMessage with the Bluetooth branch placed before the two Zoom branches
issueMessage_bluetoothFirst(r) ==
  IF hasDisplayIssue(r) THEN "External display detected"
  ELSE IF hasBluetoothIssue(r) THEN "Bluetooth must be disabled"
  ELSE IF ~r.zoomResult.zoomRunning THEN "Zoom is not running"
  ELSE IF ~r.zoomResult.cameraInUse THEN "Camera has been turned off"
  ELSE IF hasUsbIssue(r) THEN "Disconnect all USB devices"
  ELSE NoIssue

issueMessage(r) ==
  IF hasDisplayIssue(r) THEN "External display detected"
  ELSE IF ~r.zoomResult.zoomRunning THEN "Zoom is not running"
  ELSE IF ~r.zoomResult.cameraInUse THEN "Camera has been turned off"
  ELSE IF hasBluetoothIssue(r) THEN "Bluetooth must be disabled"
  ELSE IF hasUsbIssue(r) THEN "Disconnect all USB devices"
  ELSE NoIssue

(***************************************************************************)
(* Handles.  A new timer or window gets a handle that nothing refers to.   *)
(***************************************************************************)
TimerIds == { t.id : t \in timers }
WindowIds == { w.id : w \in windows }

NewTimerId ==
  CHOOSE n \in 1..(MaxInFlight + 3) :
    /\ n \notin TimerIds
    /\ n \notin {monitoringInterval, resolveCheckInterval}
    /\ \A r \in BagToSet(inflight) : r.timer # n

NewWindowId == CHOOSE n \in 1..(Cardinality(windows) + 1) : n \notin WindowIds

\* clearInterval(h): the timers left scheduled
clearInterval(ts, h) == { t \in ts : t.id # h }

\* warningWindow && !warningWindow.isDestroyed()
warningWindowOpen == warningWindow # 0 /\ warningWindow \in WindowIds

\* warningWindow.close(): the windows left open
closeWindow(h) == { w \in windows : w.id # h }

Did(op, out, issue) == [op |-> op, out |-> out, issue |-> issue]

\* app.whenReady: createWindow has run and start.html is loaded.
AppReady ==
  /\ proctorStarted = FALSE
  /\ isShowingWarning = FALSE
  /\ sessionTerminated = FALSE
  /\ allowQuit = TRUE
  /\ monitoringInterval = 0
  /\ resolveCheckInterval = 0
  /\ warningWindow = 0
  /\ mainWindow = [page |-> "start.html", closable |-> TRUE, movable |-> TRUE,
                   resizable |-> TRUE, simpleFullScreen |-> FALSE,
                   alwaysOnTop |-> "off"]
  /\ timers = {}
  /\ windows = {}
  /\ startTimeout = FALSE
  /\ quitTimeout = FALSE
  /\ exited = FALSE
  /\ inflight = EmptyBag
  /\ last = Did("createWindow", {"loadFile start.html"}, NoIssue)
  /\ warningsShown = 0

NoCall == [fn |-> "none", state |-> "none"]

Init ==
  /\ AppReady
  /\ call = NoCall
  /\ violationPersists = FALSE

(***************************************************************************)
(* The functions the handlers and callbacks call.  Each says what becomes  *)
(* of the flags, handles, timers and warning windows.                      *)
(***************************************************************************)
Min(a, b) == IF a < b THEN a ELSE b

\* startActiveMonitoring (lines 397-432): schedules the 2000 ms interval.
startActiveMonitoring ==
  /\ monitoringInterval' = NewTimerId
  /\ timers' = timers \cup { [id |-> NewTimerId, task |-> "monitor"] }
  /\ UNCHANGED <<isShowingWarning, sessionTerminated, resolveCheckInterval,
                 warningWindow, windows, warningsShown>>

\* the guards of showWarningWindow without the isShowingWarning test
showWarningWindowDropped_noFlagTest == sessionTerminated

\* the guards of showWarningWindow (lines 436-437)
showWarningWindowDropped == isShowingWarning \/ sessionTerminated \/ warningWindowOpen

\* showWarningWindow(issue) (lines 434-503): the guards, then the window and
\* the 1000 ms resolve interval.
showWarningWindow(issue) ==
  IF showWarningWindowDropped
  THEN UNCHANGED <<isShowingWarning, sessionTerminated, monitoringInterval,
                   resolveCheckInterval, warningWindow, timers, windows,
                   warningsShown>>
  ELSE /\ isShowingWarning' = TRUE
       /\ resolveCheckInterval' = NewTimerId
       /\ timers' = clearInterval(timers, resolveCheckInterval)
                      \cup { [id |-> NewTimerId, task |-> "resolve"] }
       /\ warningWindow' = NewWindowId
       /\ windows' = windows \cup { [id |-> NewWindowId, issue |-> issue] }
       /\ warningsShown' = Min(warningsShown + 1, MaxWarnings)
       /\ UNCHANGED <<sessionTerminated, monitoringInterval>>

showWarningWindowCmds ==
  IF showWarningWindowDropped THEN {} ELSE {"new warning window"}

\* closeWarningWindow that also clears sessionTerminated
closeWarningWindow_resumes ==
  /\ timers' = clearInterval(timers, resolveCheckInterval)
  /\ resolveCheckInterval' = 0
  /\ windows' = IF warningWindowOpen THEN closeWindow(warningWindow) ELSE windows
  /\ warningWindow' = IF warningWindowOpen THEN 0 ELSE warningWindow
  /\ isShowingWarning' = FALSE
  /\ sessionTerminated' = FALSE
  /\ UNCHANGED <<monitoringInterval, warningsShown>>

\* closeWarningWindow that leaves the resolve interval scheduled
closeWarningWindow_keepsInterval ==
  /\ UNCHANGED <<timers, resolveCheckInterval>>
  /\ windows' = IF warningWindowOpen THEN closeWindow(warningWindow) ELSE windows
  /\ warningWindow' = IF warningWindowOpen THEN 0 ELSE warningWindow
  /\ isShowingWarning' = FALSE
  /\ UNCHANGED <<sessionTerminated, monitoringInterval, warningsShown>>

\* closeWarningWindow (lines 505-522)
closeWarningWindow ==
  /\ timers' = clearInterval(timers, resolveCheckInterval)
  /\ resolveCheckInterval' = 0
  /\ windows' = IF warningWindowOpen THEN closeWindow(warningWindow) ELSE windows
  /\ warningWindow' = IF warningWindowOpen THEN 0 ELSE warningWindow
  /\ isShowingWarning' = FALSE
  /\ UNCHANGED <<sessionTerminated, monitoringInterval, warningsShown>>

closeWarningWindowCmds ==
  IF warningWindowOpen THEN {"send issue-resolved", "warningWindow.close"} ELSE {}

\* terminateChessSession that stops the monitor interval only
terminateChessSession_keepsResolve ==
  /\ sessionTerminated' = TRUE
  /\ isShowingWarning' = FALSE
  /\ timers' = clearInterval(timers, monitoringInterval)
  /\ monitoringInterval' = 0
  /\ UNCHANGED resolveCheckInterval
  /\ windows' = IF warningWindowOpen THEN closeWindow(warningWindow) ELSE windows
  /\ warningWindow' = IF warningWindowOpen THEN 0 ELSE warningWindow
  /\ mainWindow' = [mainWindow EXCEPT !.simpleFullScreen = FALSE,
                                      !.alwaysOnTop = "floating",
                                      !.page = "terminated.html"]
  /\ UNCHANGED warningsShown

\* terminateChessSession (lines 524-559)
terminateChessSession ==
  /\ sessionTerminated' = TRUE
  /\ isShowingWarning' = FALSE
  /\ timers' = clearInterval(clearInterval(timers, monitoringInterval),
                             resolveCheckInterval)
  /\ monitoringInterval' = 0
  /\ resolveCheckInterval' = 0
  /\ windows' = IF warningWindowOpen THEN closeWindow(warningWindow) ELSE windows
  /\ warningWindow' = IF warningWindowOpen THEN 0 ELSE warningWindow
  /\ mainWindow' = [mainWindow EXCEPT !.simpleFullScreen = FALSE,
                                      !.alwaysOnTop = "floating",
                                      !.page = "terminated.html"]
  /\ UNCHANGED warningsShown

terminateChessSessionCmds ==
  (IF warningWindowOpen THEN {"warningWindow.close"} ELSE {})
  \cup {"setSimpleFullScreen(false)", "setAlwaysOnTop floating",
        "loadFile terminated.html"}

(***************************************************************************)
(* IPC handlers of the main window (createWindow, lines 272-368).          *)
(***************************************************************************)
\* start-proctor without the proctorStarted test
StartProctor_noGuard ==
  /\ ~exited
  /\ UNCHANGED <<call, violationPersists>>
  /\ proctorStarted' = TRUE
  /\ mainWindow' = [mainWindow EXCEPT !.closable = FALSE,
                                      !.movable = FALSE,
                                      !.resizable = FALSE,
                                      !.simpleFullScreen = TRUE,
                                      !.alwaysOnTop = "screen-saver",
                                      !.page = "GAME_URL"]
  /\ startTimeout' = TRUE
  /\ last' = Did("start-proctor",
                 {"setClosable(false)", "setMovable(false)",
                  "setResizable(false)", "setSimpleFullScreen(true)",
                  "setAlwaysOnTop screen-saver", "loadURL GAME_URL"},
                 NoIssue)
  /\ UNCHANGED <<isShowingWarning, sessionTerminated, allowQuit,
                 monitoringInterval, resolveCheckInterval, warningWindow,
                 timers, windows, quitTimeout, exited, inflight, warningsShown>>

\* ipcMain.on('start-proctor'), lines 272-305
StartProctor ==
  /\ ~exited
  /\ UNCHANGED <<call, violationPersists>>
  /\ IF ~proctorStarted
     THEN /\ proctorStarted' = TRUE
          /\ mainWindow' = [mainWindow EXCEPT !.closable = FALSE,
                                              !.movable = FALSE,
                                              !.resizable = FALSE,
                                              !.simpleFullScreen = TRUE,
                                              !.alwaysOnTop = "screen-saver",
                                              !.page = "GAME_URL"]
          /\ startTimeout' = TRUE
          /\ last' = Did("start-proctor",
                         {"setClosable(false)", "setMovable(false)",
                          "setResizable(false)", "setSimpleFullScreen(true)",
                          "setAlwaysOnTop screen-saver", "loadURL GAME_URL"},
                         NoIssue)
     ELSE /\ UNCHANGED <<proctorStarted, mainWindow, startTimeout>>
          /\ last' = Did("start-proctor", {}, NoIssue)
  /\ UNCHANGED <<isShowingWarning, sessionTerminated, allowQuit,
                 monitoringInterval, resolveCheckInterval, warningWindow,
                 timers, windows, quitTimeout, exited, inflight, warningsShown>>

\* the setTimeout callback of start-proctor, lines 290-298
StartTimeoutFires ==
  /\ ~exited
  /\ UNCHANGED <<call, violationPersists>>
  /\ startTimeout
  /\ startTimeout' = FALSE
  /\ mainWindow' = [mainWindow EXCEPT !.closable = FALSE]
  /\ startActiveMonitoring
  /\ last' = Did("start-proctor timeout", {"setKiosk(false)", "setClosable(false)"},
                 NoIssue)
  /\ UNCHANGED <<proctorStarted, allowQuit, quitTimeout, exited, inflight>>

\* An async callback runs up to its first await: the display count is read
\* (screen.getAllDisplays is synchronous) and checkZoomCamera is awaited.
Suspend(r) == inflight (+) SetToBag({r})
Resume(r) == inflight (-) SetToBag({r})

Begin(task, timer, d) ==
  /\ BagCardinality(inflight) < MaxInFlight
  /\ inflight' = Suspend([task |-> task, timer |-> timer,
                          awaiting |-> "checkZoomCamera", displayResult |-> d])

\* ipcMain.on('warning-timer-expired'), lines 308-313: up to the first await
WarningTimerExpired ==
  /\ ~exited
  /\ UNCHANGED <<call, violationPersists>>
  /\ \E d \in DisplayCounts : Begin("warning-timer-expired", 0, d)
  /\ last' = Did("warning-timer-expired", {}, NoIssue)
  /\ UNCHANGED <<proctorStarted, isShowingWarning, sessionTerminated, allowQuit,
                 monitoringInterval, resolveCheckInterval, warningWindow,
                 mainWindow, timers, windows, startTimeout, quitTimeout,
                 exited, warningsShown>>

\* app.quit() with allowQuit true (before-quit, lines 658-662, and the main
\* window's close handler, lines 200-204, prevent nothing): the process ends,
\* and with it its timers, windows and suspended callbacks.
appQuit ==
  /\ exited' = TRUE
  /\ timers' = {}
  /\ windows' = {}
  /\ inflight' = EmptyBag
  /\ startTimeout' = FALSE
  /\ quitTimeout' = FALSE

\* ipcMain.on('terminate-proctor'), lines 332-336
TerminateProctor ==
  /\ ~exited
  /\ UNCHANGED <<call, violationPersists>>
  /\ allowQuit' = TRUE
  /\ appQuit
  /\ last' = Did("terminate-proctor", {"app.quit"}, NoIssue)
  /\ UNCHANGED <<proctorStarted, isShowingWarning, sessionTerminated,
                 monitoringInterval, resolveCheckInterval, warningWindow,
                 mainWindow, warningsShown>>

\* ipcMain.on('end-proctor'), lines 339-368: up to the setTimeout
EndProctor ==
  /\ ~exited
  /\ UNCHANGED <<call, violationPersists>>
  /\ timers' = clearInterval(timers, monitoringInterval)
  /\ monitoringInterval' = 0
  /\ windows' = IF warningWindowOpen THEN closeWindow(warningWindow) ELSE windows
  /\ warningWindow' = IF warningWindowOpen THEN 0 ELSE warningWindow
  /\ mainWindow' = [mainWindow EXCEPT !.simpleFullScreen = FALSE,
                                      !.alwaysOnTop = "off",
                                      !.closable = TRUE]
  /\ quitTimeout' = TRUE
  /\ last' = Did("end-proctor",
                 (IF warningWindowOpen THEN {"warningWindow.close"} ELSE {})
                   \cup {"setSimpleFullScreen(false)", "setAlwaysOnTop(false)",
                         "setClosable(true)"},
                 NoIssue)
  /\ UNCHANGED <<proctorStarted, isShowingWarning, sessionTerminated, allowQuit,
                 resolveCheckInterval, startTimeout, exited, inflight,
                 warningsShown>>

\* the setTimeout callback of end-proctor, lines 364-367
QuitTimeoutFires ==
  /\ ~exited
  /\ UNCHANGED <<call, violationPersists>>
  /\ quitTimeout
  /\ allowQuit' = TRUE
  /\ appQuit
  /\ last' = Did("end-proctor timeout", {"app.quit"}, NoIssue)
  /\ UNCHANGED <<proctorStarted, isShowingWarning, sessionTerminated,
                 monitoringInterval, resolveCheckInterval, warningWindow,
                 mainWindow, warningsShown>>

\* app.on('before-quit'), lines 657-662, for a quit asked for from outside
\* the handlers (Cmd+Q, the Dock, a system shutdown): prevented when
\* allowQuit is false; otherwise the quit goes through, the main window's
\* close handler (lines 200-204) preventing nothing either.
BeforeQuit ==
  /\ ~exited
  /\ UNCHANGED <<call, violationPersists>>
  /\ IF ~allowQuit
     THEN /\ UNCHANGED <<timers, windows, inflight, startTimeout, quitTimeout,
                         exited>>
          /\ last' = Did("before-quit", {"preventDefault"}, NoIssue)
     ELSE /\ appQuit
          /\ last' = Did("before-quit", {"app.quit"}, NoIssue)
  /\ UNCHANGED <<proctorStarted, isShowingWarning, sessionTerminated, allowQuit,
                 monitoringInterval, resolveCheckInterval, warningWindow,
                 mainWindow, warningsShown>>

\* warningWindow.on('closed') for a window closed from outside, lines 475-477
WarningWindowClosed ==
  /\ ~exited
  /\ UNCHANGED <<call, violationPersists>>
  /\ \E w \in windows :
       /\ windows' = windows \ {w}
       /\ warningWindow' = 0
  /\ last' = Did("warning window closed", {}, NoIssue)
  /\ UNCHANGED <<proctorStarted, isShowingWarning, sessionTerminated, allowQuit,
                 monitoringInterval, resolveCheckInterval, mainWindow, timers,
                 startTimeout, quitTimeout, exited, inflight, warningsShown>>

(***************************************************************************)
(* Timer callbacks up to their first await.                                *)
(***************************************************************************)
\* the monitoringInterval callback with the isShowingWarning test inverted
MonitorTick_invertedGuard ==
  /\ ~exited
  /\ UNCHANGED <<call, violationPersists>>
  /\ \E t \in timers :
       /\ t.task = "monitor"
       /\ IF sessionTerminated \/ ~isShowingWarning
          THEN UNCHANGED inflight
          ELSE \E d \in DisplayCounts : Begin("monitor", t.id, d)
  /\ last' = Did("monitor tick", {}, NoIssue)
  /\ UNCHANGED <<proctorStarted, isShowingWarning, sessionTerminated, allowQuit,
                 monitoringInterval, resolveCheckInterval, warningWindow,
                 mainWindow, timers, windows, startTimeout, quitTimeout,
                 exited, warningsShown>>

\* the monitoringInterval callback, lines 400-405
MonitorTick ==
  /\ ~exited
  /\ UNCHANGED <<call, violationPersists>>
  /\ \E t \in timers :
       /\ t.task = "monitor"
       /\ IF sessionTerminated \/ isShowingWarning
          THEN UNCHANGED inflight
          ELSE \E d \in DisplayCounts : Begin("monitor", t.id, d)
  /\ last' = Did("monitor tick", {}, NoIssue)
  /\ UNCHANGED <<proctorStarted, isShowingWarning, sessionTerminated, allowQuit,
                 monitoringInterval, resolveCheckInterval, warningWindow,
                 mainWindow, timers, windows, startTimeout, quitTimeout,
                 exited, warningsShown>>

\* the resolveCheckInterval callback, lines 480-489
ResolveTick ==
  /\ ~exited
  /\ UNCHANGED <<call, violationPersists>>
  /\ \E t \in timers :
       /\ t.task = "resolve"
       /\ IF ~isShowingWarning \/ sessionTerminated
          THEN /\ timers' = clearInterval(timers, resolveCheckInterval)
               /\ resolveCheckInterval' = 0
               /\ UNCHANGED inflight
          ELSE /\ \E d \in DisplayCounts : Begin("resolve", t.id, d)
               /\ UNCHANGED <<timers, resolveCheckInterval>>
  /\ last' = Did("resolve tick", {}, NoIssue)
  /\ UNCHANGED <<proctorStarted, isShowingWarning, sessionTerminated, allowQuit,
                 monitoringInterval, warningWindow, mainWindow, windows,
                 startTimeout, quitTimeout, exited, warningsShown>>

(***************************************************************************)
(* Probes returning into an awaiting callback.  The three awaits follow    *)
(* one another (lines 405-407, 313-315, 489-491): checkBluetooth is called *)
(* when checkZoomCamera has returned, checkUsbDevices when checkBluetooth  *)
(* has.                                                                    *)
(***************************************************************************)
\* checkBluetooth() called without await: the callback goes on with the
\* pending promise, whose bluetoothEnabled is undefined
ZoomReturns_noAwait(r) ==
  /\ ~exited
  /\ UNCHANGED <<call, violationPersists>>
  /\ BagIn(r, inflight)
  /\ r.awaiting = "checkZoomCamera"
  /\ \E z \in ZoomResults :
       inflight' = Resume(r) (+) SetToBag({
                      [task |-> r.task, timer |-> r.timer,
                       awaiting |-> "checkUsbDevices",
                       displayResult |-> r.displayResult,
                       zoomResult |-> z,
                       bluetoothResult |-> [bluetoothEnabled |-> FALSE]]})
  /\ last' = Did("await", {}, NoIssue)
  /\ UNCHANGED <<proctorStarted, isShowingWarning, sessionTerminated, allowQuit,
                 monitoringInterval, resolveCheckInterval, warningWindow,
                 mainWindow, timers, windows, startTimeout, quitTimeout,
                 exited, warningsShown>>

\* await checkZoomCamera() returns; checkBluetooth() is called and awaited
ZoomReturns(r) ==
  /\ ~exited
  /\ UNCHANGED <<call, violationPersists>>
  /\ BagIn(r, inflight)
  /\ r.awaiting = "checkZoomCamera"
  /\ \E z \in ZoomResults :
       inflight' = Resume(r) (+) SetToBag({
                      [task |-> r.task, timer |-> r.timer,
                       awaiting |-> "checkBluetooth",
                       displayResult |-> r.displayResult,
                       zoomResult |-> z]})
  /\ last' = Did("await", {}, NoIssue)
  /\ UNCHANGED <<proctorStarted, isShowingWarning, sessionTerminated, allowQuit,
                 monitoringInterval, resolveCheckInterval, warningWindow,
                 mainWindow, timers, windows, startTimeout, quitTimeout,
                 exited, warningsShown>>

\* await checkBluetooth() returns; checkUsbDevices() is called and awaited
BluetoothReturns(r) ==
  /\ ~exited
  /\ UNCHANGED <<call, violationPersists>>
  /\ BagIn(r, inflight)
  /\ r.awaiting = "checkBluetooth"
  /\ \E b \in BluetoothResults :
       inflight' = Resume(r) (+) SetToBag({
                      [task |-> r.task, timer |-> r.timer,
                       awaiting |-> "checkUsbDevices",
                       displayResult |-> r.displayResult,
                       zoomResult |-> r.zoomResult,
                       bluetoothResult |-> b]})
  /\ last' = Did("await", {}, NoIssue)
  /\ UNCHANGED <<proctorStarted, isShowingWarning, sessionTerminated, allowQuit,
                 monitoringInterval, resolveCheckInterval, warningWindow,
                 mainWindow, timers, windows, startTimeout, quitTimeout,
                 exited, warningsShown>>

\* The four results an invocation evaluates once checkUsbDevices returned u.
Results(r, u) ==
  [displayResult |-> r.displayResult, zoomResult |-> r.zoomResult,
   bluetoothResult |-> r.bluetoothResult, usbResult |-> u]

AwaitsUsb(r, task) ==
  /\ BagIn(r, inflight)
  /\ r.task = task
  /\ r.awaiting = "checkUsbDevices"

(***************************************************************************)
(* The continuation after the last await: evaluation and the call made.    *)
(***************************************************************************)
\* monitor callback, lines 407-430
MonitorEval(r, u) ==
  /\ ~exited
  /\ UNCHANGED <<call, violationPersists>>
  /\ AwaitsUsb(r, "monitor")
  /\ IF hasIssue(Results(r, u))
     THEN /\ showWarningWindow(issueMessage(Results(r, u)))
          /\ last' = Did("monitor", showWarningWindowCmds,
                         issueMessage(Results(r, u)))
     ELSE /\ UNCHANGED <<isShowingWarning, sessionTerminated, monitoringInterval,
                         resolveCheckInterval, warningWindow, timers, windows,
                         warningsShown>>
          /\ last' = Did("monitor", {}, NoIssue)
  /\ inflight' = Resume(r)
  /\ UNCHANGED <<proctorStarted, allowQuit, mainWindow, startTimeout,
                 quitTimeout, exited>>

\* resolve callback, lines 491-501
ResolveEval(r, u) ==
  /\ ~exited
  /\ UNCHANGED <<call, violationPersists>>
  /\ AwaitsUsb(r, "resolve")
  /\ IF ~hasIssue(Results(r, u))
     THEN /\ closeWarningWindow
          /\ last' = Did("resolve", closeWarningWindowCmds, NoIssue)
     ELSE /\ UNCHANGED <<isShowingWarning, sessionTerminated, monitoringInterval,
                         resolveCheckInterval, warningWindow, timers, windows,
                         warningsShown>>
          /\ last' = Did("resolve", {}, "issue persists")
  /\ inflight' = Resume(r)
  /\ UNCHANGED <<proctorStarted, allowQuit, mainWindow, startTimeout,
                 quitTimeout, exited>>

\* warning-timer-expired handler that terminates whatever the re-probe shows
ExpiredEval_noGrace(r, u) ==
  /\ ~exited
  /\ UNCHANGED <<call, violationPersists>>
  /\ AwaitsUsb(r, "warning-timer-expired")
  /\ terminateChessSession
  /\ last' = Did("expired", terminateChessSessionCmds, "issue persists")
  /\ inflight' = Resume(r)
  /\ UNCHANGED <<proctorStarted, allowQuit, startTimeout, quitTimeout, exited>>

\* warning-timer-expired handler, lines 315-328
ExpiredEval(r, u) ==
  /\ ~exited
  /\ UNCHANGED <<call, violationPersists>>
  /\ AwaitsUsb(r, "warning-timer-expired")
  /\ IF hasIssue(Results(r, u))
     THEN /\ terminateChessSession
          /\ last' = Did("expired", terminateChessSessionCmds, "issue persists")
     ELSE /\ closeWarningWindow
          /\ UNCHANGED mainWindow
          /\ last' = Did("expired", closeWarningWindowCmds, NoIssue)
  /\ inflight' = Resume(r)
  /\ UNCHANGED <<proctorStarted, allowQuit, startTimeout, quitTimeout, exited>>

Next ==
  \/ StartProctor
  \/ StartTimeoutFires
  \/ WarningTimerExpired
  \/ TerminateProctor
  \/ EndProctor
  \/ QuitTimeoutFires
  \/ BeforeQuit
  \/ WarningWindowClosed
  \/ MonitorTick
  \/ ResolveTick
  \/ \E r \in BagToSet(inflight) : ZoomReturns(r)
  \/ \E r \in BagToSet(inflight) : BluetoothReturns(r)
  \/ \E r \in BagToSet(inflight), u \in UsbResults : MonitorEval(r, u)
  \/ \E r \in BagToSet(inflight), u \in UsbResults : ResolveEval(r, u)
  \/ \E r \in BagToSet(inflight), u \in UsbResults : ExpiredEval(r, u)

Spec == Init /\ [][Next]_vars

(***************************************************************************)
(* The probe functions and the window-open handler taken alone: one call   *)
(* on one input, the main process left as it is after start-up.            *)
(***************************************************************************)
\* Lines of a system_profiler SPUSBDataType output.
UsbLines ==
  {"USB:", "", "    USB 3.1 Bus:", "    Apple Internal Keyboard:",
   "    SanDisk USB Drive:", "      Product ID: 0x5583",
   "      Manufacturer: No USB Corp", "        Logitech Mouse:"}

RECURSIVE join(_)
join(lines) ==
  IF lines = <<>> THEN ""
  ELSE IF Len(lines) = 1 THEN lines[1]
  ELSE lines[1] \o "\n" \o join(Tail(lines))

UsbOutcomes ==
  {ExecFailed}
  \cup { Stdout(join(lines)) :
           lines \in UNION { [1..n -> UsbLines] : n \in 0..MaxLines } }

\* URLs a page asks a new window for.
Urls ==
  {"https://www.chess.com/play/online", "https://buddyboardgames.com/chess",
   "https://example.com/", "https://example.com/?from=chess.com",
   "about:blank"}

Called(fn, input) == [fn |-> fn, state |-> "called", input |-> input]

\* The call returns result; nothing of the main process changes.
Returns(result) ==
  /\ call.state = "called"
  /\ call' = [fn |-> call.fn, state |-> "returned", input |-> call.input,
              result |-> result]
  /\ UNCHANGED <<process, violationPersists>>

ProbeInit ==
  /\ AppReady
  /\ violationPersists = FALSE
  /\ \/ \E x \in UsbOutcomes : call = Called("getUsbDeviceCount", x)
     \/ \E ps, ioreg, share, lsof \in CommandOutcomes :
          call = Called("checkZoomCamera", <<ps, ioreg, share, lsof>>)
     \/ \E x \in BluetoothOutcomes : call = Called("checkBluetooth", x)
     \/ \E url \in Urls : call = Called("windowOpenHandler", url)

GetUsbDeviceCountReturns ==
  /\ call.fn = "getUsbDeviceCount"
  /\ Returns(getUsbDeviceCount(call.input))

CheckZoomCameraReturns ==
  /\ call.fn = "checkZoomCamera"
  /\ Returns(checkZoomCamera(call.input[1], call.input[2], call.input[3],
                             call.input[4]))

CheckBluetoothReturns ==
  /\ call.fn = "checkBluetooth"
  /\ Returns(checkBluetooth(call.input))

WindowOpenHandlerReturns ==
  /\ call.fn = "windowOpenHandler"
  /\ Returns(windowOpenHandler(call.input))

ProbeNext ==
  \/ GetUsbDeviceCountReturns
  \/ CheckZoomCameraReturns
  \/ CheckBluetoothReturns
  \/ WindowOpenHandlerReturns

ProbeSpec == ProbeInit /\ [][ProbeNext]_vars


(***************************************************************************)
(* Properties.                                                             *)
(***************************************************************************)
Evals == BagToSet(inflight) \X UsbResults

InFlight(task) == BagCardinality([r \in { x \in BagToSet(inflight) : x.task = task }
                                    |-> CopiesIn(r, inflight)])

Scheduled(task) == { t \in timers : t.task = task }

\* A step that changes nothing of the session and commands no window.
NoEffect == UNCHANGED <<session, mainWindow>> /\ last'.out = {}

\* C1: once sessionTerminated is true no step makes it false again, and the
\* session state stays Terminated.
C1_TerminatedForever ==
  [][sessionTerminated => sessionTerminated' /\ SessionState' = "Terminated"]_vars

\* a tick that was awaiting probes completes, with a violation, after termination
C1_Witness ==
  sessionTerminated /\ proctorStarted /\ last.op = "monitor" /\ last.issue # NoIssue

\* C2: in Terminated, start-proctor, warning-timer-expired, a monitor tick and
\* a resolve tick (and their completions) change no session state and issue
\* no window command.
C2_TerminatedRejects ==
  [][(/\ sessionTerminated
      /\ \/ StartProctor
         \/ WarningTimerExpired
         \/ MonitorTick
         \/ ResolveTick
         \/ \E e \in Evals : ExpiredEval(e[1], e[2])
         \/ \E e \in Evals : MonitorEval(e[1], e[2])
         \/ \E e \in Evals : ResolveEval(e[1], e[2]))
     => NoEffect]_vars

\* C3: when the warning-timer-expired handler, in Warning, finds a violation,
\* the session is Terminated with both timers stopped and the warning window
\* closed; a warning implies a started session, a started session stays
\* started, and start-proctor on a started session changes nothing.
C3_ExpiryTerminates ==
  /\ [](isShowingWarning => proctorStarted)
  /\ [][/\ \A e \in Evals :
             (/\ ExpiredEval(e[1], e[2])
              /\ SessionState = "Warning"
              /\ hasIssue(Results(e[1], e[2])))
             => /\ sessionTerminated'
                /\ ~isShowingWarning'
                /\ monitoringInterval' = 0
                /\ resolveCheckInterval' = 0
                /\ timers' = {}
                /\ warningWindow' = 0
                /\ windows' = {}
        /\ proctorStarted => proctorStarted'
        /\ (StartProctor /\ proctorStarted) => NoEffect]_vars

\* the expired handler has just terminated a session that was showing a
\* warning, closing its window
C3_Witness ==
  /\ sessionTerminated
  /\ proctorStarted
  /\ last.op = "expired"
  /\ last.issue = "issue persists"
  /\ "warningWindow.close" \in last.out
  /\ timers = {}
  /\ windows = {}

\* C4: at most one warning window is open and at most one resolve interval is
\* scheduled; showWarningWindow called while a warning is showing or after
\* termination changes nothing, and a monitor tick that fires while a warning
\* is showing does nothing.
C4_OneWarning ==
  /\ [](Cardinality(windows) <= 1 /\ Cardinality(Scheduled("resolve")) <= 1)
  /\ [][/\ (MonitorTick /\ isShowingWarning) => (NoEffect /\ UNCHANGED inflight)
        /\ \A e \in Evals :
             (/\ MonitorEval(e[1], e[2])
              /\ hasIssue(Results(e[1], e[2]))
              /\ (isShowingWarning \/ sessionTerminated))
             => NoEffect]_vars

\* a second request for a warning was dropped while the first is showing
C4_Witness ==
  /\ isShowingWarning
  /\ Cardinality(windows) = 1
  /\ last.op = "monitor"
  /\ last.issue # NoIssue
  /\ last.out = {}

\* The five violation conditions in their priority order, with the headlines.
Priority(rs) ==
  << <<rs.displayResult > 1, "External display detected">>,
     <<~rs.zoomResult.zoomRunning, "Zoom is not running">>,
     <<rs.zoomResult.zoomRunning /\ ~rs.zoomResult.cameraInUse,
       "Camera has been turned off">>,
     <<rs.bluetoothResult.bluetoothEnabled, "Bluetooth must be disabled">>,
     <<rs.usbResult.count > 0, "Disconnect all USB devices">> >>

FirstTrue(p) ==
  IF \E k \in 1..Len(p) : p[k][1]
  THEN p[CHOOSE k \in 1..Len(p) : p[k][1] /\ \A j \in 1..(k - 1) : ~p[j][1]][2]
  ELSE NoIssue

\* C5: a monitor evaluation requests a warning exactly when one of the five
\* conditions holds, with the headline of the first condition that holds in
\* the priority order; more than one display gives the display headline.
C5_HeadlinePriority ==
  [][\A e \in Evals :
       MonitorEval(e[1], e[2]) =>
         LET rs == Results(e[1], e[2]) IN
           /\ last'.issue = FirstTrue(Priority(rs))
           /\ (last'.issue # NoIssue) <=> (\E k \in 1..5 : Priority(rs)[k][1])
           /\ rs.displayResult > 1 => last'.issue = "External display detected"]_vars

\* the lowest-priority headline was shown
C5_Witness ==
  /\ last.op = "monitor"
  /\ last.issue = "Disconnect all USB devices"
  /\ \E w \in windows : w.issue = "Disconnect all USB devices"

\* C6: a monitor evaluation of one display, Zoom running, camera in use,
\* Bluetooth off and no USB device requests nothing and changes nothing: an
\* Active session stays Active with its monitor interval scheduled.
C6_CleanTick ==
  [][\A e \in Evals :
       (/\ MonitorEval(e[1], e[2])
        /\ e[1].displayResult = 1
        /\ e[1].zoomResult.zoomRunning
        /\ e[1].zoomResult.cameraInUse
        /\ ~e[1].bluetoothResult.bluetoothEnabled
        /\ e[2].count = 0)
       => /\ NoEffect
          /\ last'.issue = NoIssue
          /\ SessionState = "Active" =>
               /\ SessionState' = "Active"
               /\ ~isShowingWarning'
               /\ windows' = {}
               /\ Scheduled("resolve")' = {}
               /\ Scheduled("monitor")' = Scheduled("monitor")]_vars

\* a clean monitor evaluation has just run in Active
C6_Witness ==
  /\ SessionState = "Active"
  /\ last.op = "monitor"
  /\ last.issue = NoIssue
  /\ Scheduled("monitor") # {}
  /\ windows = {}

\* C7: a monitor evaluation with a violation takes Active to Warning (window
\* shown, resolve interval scheduled); a resolve evaluation without violation
\* takes Warning back to Active with the window closed, the resolve interval
\* cancelled and, unless end-proctor was received, the monitor interval
\* still scheduled.
C7_WarnAndRecover ==
  [][\A e \in Evals :
       /\ (/\ MonitorEval(e[1], e[2])
           /\ SessionState = "Active"
           /\ hasIssue(Results(e[1], e[2])))
          => /\ SessionState' = "Warning"
             /\ warningWindowOpen'
             /\ Cardinality(windows') = 1
             /\ resolveCheckInterval' # 0
             /\ Scheduled("resolve")' =
                  { [id |-> resolveCheckInterval', task |-> "resolve"] }
       /\ (/\ ResolveEval(e[1], e[2])
           /\ SessionState = "Warning"
           /\ ~hasIssue(Results(e[1], e[2])))
          => /\ SessionState' = "Active"
             /\ ~isShowingWarning'
             /\ warningWindow' = 0
             /\ windows' = {}
             /\ resolveCheckInterval' = 0
             /\ Scheduled("resolve")' = {}
             /\ ~quitTimeout =>
                  /\ monitoringInterval' # 0
                  /\ Scheduled("monitor")' =
                       { [id |-> monitoringInterval', task |-> "monitor"] }]_vars

\* the second warning of the session was closed by a resolve tick
C7_Witness ==
  /\ SessionState = "Active"
  /\ ~quitTimeout
  /\ warningsShown >= 2
  /\ last.op = "resolve"
  /\ "warningWindow.close" \in last.out
  /\ Scheduled("monitor") # {}
  /\ Scheduled("resolve") = {}

\* C8: at most one invocation of the monitor callback and at most one of the
\* resolve callback is awaiting probes at any moment.
C8_NoStacking == InFlight("monitor") <= 1 /\ InFlight("resolve") <= 1

\* The probes an invocation has called so far (lines 404-407): the awaits
\* follow one another.
ProbesCalled(r) ==
  IF r.awaiting = "checkZoomCamera"
  THEN {"getAllDisplays", "checkZoomCamera"}
  ELSE IF r.awaiting = "checkBluetooth"
  THEN {"getAllDisplays", "checkZoomCamera", "checkBluetooth"}
  ELSE {"getAllDisplays", "checkZoomCamera", "checkBluetooth", "checkUsbDevices"}

\* C9: an invocation that awaits a probe has called all four probes: the
\* Bluetooth and USB probes do not wait for the Zoom probe.
C9_ProbesConcurrent ==
  \A r \in BagToSet(inflight) :
    ProbesCalled(r) = {"getAllDisplays", "checkZoomCamera", "checkBluetooth",
                       "checkUsbDevices"}

\* C10: when end-proctor has been handled in Active or Warning, no interval
\* is scheduled and no warning window is open.
C10_EndStopsAll ==
  [][(EndProctor /\ SessionState \in {"Active", "Warning"})
     => /\ timers' = {}
        /\ monitoringInterval' = 0
        /\ resolveCheckInterval' = 0
        /\ windows' = {}]_vars

\* C11: in every state where sessionTerminated is true, monitoringInterval
\* and resolveCheckInterval are both null, a termination between
\* start-proctor and its delayed startActiveMonitoring included.
C11_NoTimerAfterTermination ==
  sessionTerminated => (monitoringInterval = 0 /\ resolveCheckInterval = 0)

\* C12: resolveCheckInterval is non-null, and a resolve interval scheduled,
\* only while isShowingWarning is true and the session is not terminated; a
\* step that leaves Warning clears the handle and the interval.
C12_ResolveOnlyInWarning ==
  /\ [](resolveCheckInterval # 0 => (isShowingWarning /\ ~sessionTerminated))
  /\ [](Scheduled("resolve") # {} => SessionState = "Warning")
  /\ [][(SessionState = "Warning" /\ SessionState' # "Warning")
        => (resolveCheckInterval' = 0 /\ Scheduled("resolve")' = {})]_vars

\* the expired handler closed the warning while a resolve invocation was
\* still awaiting its probes
C12_Witness ==
  /\ SessionState = "Active"
  /\ last.op = "expired"
  /\ "warningWindow.close" \in last.out
  /\ InFlight("resolve") >= 1
  /\ resolveCheckInterval = 0
  /\ Scheduled("resolve") = {}

\* C13: the continuation of a warning-timer-expired received in Idle changes
\* no session state, commands no window and does not terminate the session,
\* whatever the probes returned.
C13_IdleExpiryDropped ==
  [][\A e \in Evals :
       (ExpiredEval(e[1], e[2]) /\ SessionState = "Idle")
       => (NoEffect /\ ~sessionTerminated')]_vars

\* C17: every step that sets sessionTerminated is taken with the session
\* started and isShowingWarning true: never from Idle, and never from Active
\* after a resolve tick closed the warning while the expired handler awaited
\* its probes.
C17_TerminationOnlyFromWarning ==
  [][(~sessionTerminated /\ sessionTerminated')
     => (proctorStarted /\ isShowingWarning)]_vars

\* C18: when the continuation of warning-timer-expired runs in Warning and
\* the re-probe shows no violation, the session is not terminated: it is
\* Active again, the warning window closed, isShowingWarning false, the
\* resolve interval cancelled and, unless end-proctor was received, the
\* monitor interval still scheduled.
C18_GraceOnExpiry ==
  [][\A e \in Evals :
       (/\ ExpiredEval(e[1], e[2])
        /\ SessionState = "Warning"
        /\ ~hasIssue(Results(e[1], e[2])))
       => /\ ~sessionTerminated'
          /\ SessionState' = "Active"
          /\ ~isShowingWarning'
          /\ warningWindow' = 0
          /\ windows' = {}
          /\ resolveCheckInterval' = 0
          /\ Scheduled("resolve")' = {}
          /\ mainWindow' = mainWindow
          /\ ~quitTimeout =>
               /\ monitoringInterval' # 0
               /\ Scheduled("monitor")' =
                    { [id |-> monitoringInterval', task |-> "monitor"] }]_vars

\* the expired handler found the violation gone and closed the warning
C18_Witness ==
  /\ SessionState = "Active"
  /\ ~quitTimeout
  /\ last.op = "expired"
  /\ last.issue = NoIssue
  /\ "warningWindow.close" \in last.out
  /\ mainWindow.page = "GAME_URL"
  /\ Scheduled("monitor") # {}
  /\ windows = {}

\* C19: proctorStarted goes from false to true only in start-proctor and is
\* never reset; start-proctor on a started session changes nothing and arms
\* no timeout; the timeout that calls startActiveMonitoring is armed only by
\* the start-proctor that starts the session, a monitor interval is created
\* only by that timeout, none exists while it is pending, and at most one is
\* ever scheduled.
C19_StartsOnce ==
  /\ [](Cardinality(Scheduled("monitor")) <= 1)
  /\ [](startTimeout =>
          (proctorStarted /\ monitoringInterval = 0 /\ Scheduled("monitor") = {}))
  /\ [][/\ proctorStarted => proctorStarted'
        /\ (~proctorStarted /\ proctorStarted') => StartProctor
        /\ (StartProctor /\ proctorStarted) => (NoEffect /\ UNCHANGED startTimeout)
        /\ (~startTimeout /\ startTimeout') => ~proctorStarted
        /\ (\/ Scheduled("monitor")' \ Scheduled("monitor") # {}
            \/ monitoringInterval' \notin {0, monitoringInterval})
           => (startTimeout /\ ~startTimeout' /\ StartTimeoutFires)]_vars

\* start-proctor was received again on a session whose monitor interval runs
C19_Witness ==
  /\ proctorStarted
  /\ last.op = "start-proctor"
  /\ last.out = {}
  /\ ~startTimeout
  /\ Cardinality(Scheduled("monitor")) = 1

\* What each probe returns when every command it runs fails: the promise is
\* rejected, or the command prints nothing (the empty line of echo "" for
\* the commands of checkZoomCamera).
AllFailedZoom ==
  { ZoomFlags(checkZoomCamera(ps, ioreg, share, lsof)) :
      ps \in {ExecFailed, Stdout("\n")}, ioreg \in {ExecFailed, Stdout("\n")},
      share \in {ExecFailed, Stdout("\n")}, lsof \in {ExecFailed, Stdout("\n")} }
AllFailedBluetooth == { checkBluetooth(x) : x \in {ExecFailed, Stdout("")} }
AllFailedUsb ==
  { checkUsbDevices(getUsbDeviceCount(x)) : x \in {ExecFailed, Stdout("")} }

AllFailed(r, u) ==
  /\ r.awaiting = "checkUsbDevices"
  /\ r.zoomResult \in AllFailedZoom
  /\ r.bluetoothResult \in AllFailedBluetooth
  /\ u \in AllFailedUsb

\* C14: an evaluation of the results the probes give when every command
\* failed finds a violation.  The monitor callback then requests a warning,
\* taking an Active session to Warning with the monitor interval still
\* scheduled (unless end-proctor cleared it) and the resolve interval
\* scheduled; the resolve callback leaves the warning and both intervals as
\* they are.
C14_FailClosed ==
  [][\A e \in Evals :
       AllFailed(e[1], e[2]) =>
         /\ hasIssue(Results(e[1], e[2]))
         /\ MonitorEval(e[1], e[2]) =>
              /\ last'.issue # NoIssue
              /\ SessionState = "Active" =>
                   /\ SessionState' = "Warning"
                   /\ Scheduled("monitor")' = Scheduled("monitor")
                   /\ ~quitTimeout => Scheduled("monitor")' # {}
                   /\ Scheduled("resolve")' # {}
         /\ (ResolveEval(e[1], e[2]) /\ SessionState = "Warning") =>
              /\ SessionState' = "Warning"
              /\ timers' = timers
              /\ windows' = windows]_vars

\* a monitor evaluation found Zoom not running, as it does when every
\* command failed, and the warning is showing with both intervals scheduled
C14_Witness ==
  /\ SessionState = "Warning"
  /\ last.op = "monitor"
  /\ last.issue = "Zoom is not running"
  /\ "new warning window" \in last.out
  /\ Scheduled("monitor") # {}
  /\ Scheduled("resolve") # {}

\* The device-entry lines of an output: exactly four spaces, then a letter.
DeviceEntries(lines) ==
  { i \in 1..Len(lines) :
      /\ Len(lines[i]) >= 5
      /\ \A k \in 1..4 : charAt(lines[i], k) = " "
      /\ isUpper(charAt(lines[i], 5)) \/ isLower(charAt(lines[i], 5)) }

\* The entries whose lower-cased name contains no denylist substring.
ExternalEntries(lines) ==
  { i \in DeviceEntries(lines) :
      \A pattern \in internalPatterns :
        ~includes(toLowerCase(trim(lines[i])), pattern) }

\* C15: for every output, getUsbDeviceCount returns the number of device
\* entries whose lower-cased name contains no denylist substring.
C15_ParserCounts ==
  (call.fn = "getUsbDeviceCount" /\ call.state = "returned" /\ ~call.input.failed)
  => call.result = Cardinality(ExternalEntries(split(call.input.stdout)))

\* C16: the window-open handler denies a new window for every URL.
C16_DeniesEveryUrl ==
  (call.fn = "windowOpenHandler" /\ call.state = "returned")
  => call.result.action = "deny"

(***************************************************************************)
(* The main process in an environment where a violation sets in for good   *)
(* and the user does not end the session (no end-proctor, no               *)
(* terminate-proctor, no quit), with the scheduling Node.js gives: an      *)
(* interval that is scheduled keeps firing, a pending timeout fires, and   *)
(* an awaited probe returns.                                               *)
(***************************************************************************)
\* From now on the violation is there.
ViolationSetsIn ==
  /\ ~exited
  /\ ~violationPersists
  /\ violationPersists' = TRUE
  /\ UNCHANGED <<process, call>>

\* While the violation persists, the four results an evaluation reads meet
\* one of the five conditions.
Sampled(r, u) ==
  /\ r.awaiting = "checkUsbDevices"
  /\ violationPersists => \E k \in 1..5 : Priority(Results(r, u))[k][1]

LiveNext ==
  \/ ViolationSetsIn
  \/ StartProctor
  \/ StartTimeoutFires
  \/ WarningTimerExpired
  \/ WarningWindowClosed
  \/ MonitorTick
  \/ ResolveTick
  \/ \E r \in BagToSet(inflight) : ZoomReturns(r)
  \/ \E r \in BagToSet(inflight) : BluetoothReturns(r)
  \/ \E r \in BagToSet(inflight), u \in UsbResults :
       Sampled(r, u) /\ MonitorEval(r, u)
  \/ \E r \in BagToSet(inflight), u \in UsbResults :
       Sampled(r, u) /\ ResolveEval(r, u)
  \/ \E r \in BagToSet(inflight), u \in UsbResults :
       Sampled(r, u) /\ ExpiredEval(r, u)

Fairness ==
  /\ WF_vars(StartTimeoutFires)
  /\ WF_vars(MonitorTick)
  /\ WF_vars(ResolveTick)
  /\ WF_vars(\E r \in BagToSet(inflight) : ZoomReturns(r))
  /\ WF_vars(\E r \in BagToSet(inflight) : BluetoothReturns(r))
  /\ WF_vars(\E r \in BagToSet(inflight), u \in UsbResults :
               Sampled(r, u) /\ MonitorEval(r, u))
  /\ WF_vars(\E r \in BagToSet(inflight), u \in UsbResults :
               Sampled(r, u) /\ ResolveEval(r, u))
  /\ WF_vars(\E r \in BagToSet(inflight), u \in UsbResults :
               Sampled(r, u) /\ ExpiredEval(r, u))

LiveSpec == Init /\ [][LiveNext]_vars /\ Fairness

\* C20: once the violation persists, an Active session whose monitor
\* interval is scheduled comes to show a warning (Warning), unless its
\* monitor interval is cancelled first: it does not stay Active for ever.
C20_DetectionLiveness ==
  (SessionState = "Active" /\ violationPersists /\ Scheduled("monitor") # {})
    ~> (SessionState = "Warning" \/ Scheduled("monitor") = {})

\* with the violation persisting, a monitor evaluation has shown the second
\* warning of the session
C20_Witness ==
  /\ violationPersists
  /\ SessionState = "Warning"
  /\ last.op = "monitor"
  /\ "new warning window" \in last.out
  /\ warningsShown = 2

\* The commands a call of checkZoomCamera runs (lines 27-60): the camera and
\* share commands only when pgrep gave output, lsof only when the share
\* command gave none.
commandsRun(ps, ioreg, share, lsof) ==
  IF ps.failed \/ ~(Len(trim(ps.stdout)) > 0)
  THEN {"pgrep"}
  ELSE {"pgrep", "ioreg", "share"}
         \cup (IF ~share.failed /\ ~(Len(trim(share.stdout)) > 0)
               THEN {"lsof"}
               ELSE {})

\* C21: checkZoomCamera returns a result for every combination of command
\* outcomes.  When pgrep fails or prints nothing the result is all false and
\* no other command is run; a failed camera lookup gives cameraInUse false;
\* a failed share command, or a failed lsof when it is run, gives
\* screenSharing false; cameraInUse or screenSharing true implies zoomRunning.
C21_ZoomProbeResult ==
  (call.fn = "checkZoomCamera" /\ call.state = "returned") =>
    LET ps == call.input[1]
        ioreg == call.input[2]
        share == call.input[3]
        lsof == call.input[4]
        run == commandsRun(ps, ioreg, share, lsof)
        res == call.result
    IN /\ DOMAIN res = {"zoomRunning", "cameraInUse", "screenSharing"}
       /\ \A f \in DOMAIN res : res[f] \in BOOLEAN
       /\ (ps.failed \/ trim(ps.stdout) = "") =>
            /\ ~res.zoomRunning /\ ~res.cameraInUse /\ ~res.screenSharing
            /\ run = {"pgrep"}
       /\ (~ps.failed /\ trim(ps.stdout) # "") => res.zoomRunning
       /\ ioreg.failed => ~res.cameraInUse
       /\ share.failed => ~res.screenSharing
       /\ ("lsof" \in run /\ lsof.failed) => ~res.screenSharing
       /\ (res.cameraInUse \/ res.screenSharing) => res.zoomRunning

\* Zoom runs, the camera lookup and lsof failed: both sub-flags are false
C21_Witness ==
  /\ call.fn = "checkZoomCamera"
  /\ call.state = "returned"
  /\ call.result.zoomRunning
  /\ call.input[2].failed
  /\ "lsof" \in commandsRun(call.input[1], call.input[2], call.input[3],
                            call.input[4])
  /\ call.input[4].failed
  /\ ~call.result.cameraInUse
  /\ ~call.result.screenSharing

\* The invocations a step adds to those suspended at an await.
Added == { r \in BagToSet(inflight') : CopiesIn(r, inflight') > CopiesIn(r, inflight) }

\* r continues the suspended invocation q with one more result.
Continues(r, q) ==
  /\ BagIn(q, inflight)
  /\ inflight' = Resume(q) (+) SetToBag({r})
  /\ r.task = q.task
  /\ r.timer = q.timer
  /\ r.displayResult = q.displayResult

\* C22: an invocation gets its Zoom, Bluetooth and USB results one await
\* after the other, and a callback shows, closes or terminates only in the
\* continuation of an invocation that holds its own display, Zoom and
\* Bluetooth results and has just got its USB result, by the verdict on these
\* four; the steps before that continuation change no flag and no window.
C22_NoPartialVerdict ==
  [][/\ \A r \in Added :
          \/ /\ r.awaiting = "checkZoomCamera"
             /\ DOMAIN r = {"task", "timer", "awaiting", "displayResult"}
             /\ r.displayResult \in DisplayCounts
             /\ last'.op \in {"monitor tick", "resolve tick",
                              "warning-timer-expired"}
          \/ /\ r.awaiting = "checkBluetooth"
             /\ r.zoomResult \in ZoomResults
             /\ \E q \in BagToSet(inflight) :
                  q.awaiting = "checkZoomCamera" /\ Continues(r, q)
          \/ /\ r.awaiting = "checkUsbDevices"
             /\ r.bluetoothResult \in BluetoothResults
             /\ \E q \in BagToSet(inflight) :
                  /\ q.awaiting = "checkBluetooth"
                  /\ Continues(r, q)
                  /\ r.zoomResult = q.zoomResult
     /\ last'.op \in {"monitor tick", "resolve tick", "warning-timer-expired",
                      "await"}
        => /\ UNCHANGED <<isShowingWarning, sessionTerminated, warningWindow,
                          windows, mainWindow>>
           /\ last'.out = {}
     /\ last'.op \in {"monitor", "resolve", "expired"}
        => \E e \in Evals :
             LET r == e[1]
                 rs == Results(e[1], e[2])
             IN /\ r.awaiting = "checkUsbDevices"
                /\ ProbesCalled(r) = {"getAllDisplays", "checkZoomCamera",
                                      "checkBluetooth", "checkUsbDevices"}
                /\ inflight' = Resume(r)
                /\ last'.op = "monitor" =>
                     /\ r.task = "monitor"
                     /\ MonitorEval(r, e[2])
                     /\ (last'.issue # NoIssue) <=> hasIssue(rs)
                     /\ ~hasIssue(rs) => NoEffect
                /\ last'.op = "resolve" =>
                     /\ r.task = "resolve"
                     /\ ResolveEval(r, e[2])
                     /\ (last'.issue = NoIssue) <=> ~hasIssue(rs)
                     /\ hasIssue(rs) => NoEffect
                /\ last'.op = "expired" =>
                     /\ r.task = "warning-timer-expired"
                     /\ ExpiredEval(r, e[2])
                     /\ sessionTerminated' <=> (sessionTerminated \/ hasIssue(rs))]_vars

\* a resolve invocation closed the warning on its four results while another
\* invocation held only some of its own
C22_Witness ==
  /\ last.op = "resolve"
  /\ "warningWindow.close" \in last.out
  /\ SessionState = "Active"
  /\ \E r \in BagToSet(inflight) : r.awaiting = "checkBluetooth"

\* C23: a resolve invocation that closes the warning window was started by
\* the resolve interval of the warning that is showing, not by the interval
\* of an earlier warning.
C23_NoStaleResolution ==
  [][\A e \in Evals :
       (/\ ResolveEval(e[1], e[2])
        /\ warningWindowOpen
        /\ ~hasIssue(Results(e[1], e[2])))
       => e[1].timer = resolveCheckInterval]_vars

\* C24: while the session is started and neither end-proctor nor
\* terminate-proctor has been handled, allowQuit is false and a before-quit
\* event is prevented: the process does not exit.
C24_QuitPrevented ==
  [][(proctorStarted /\ ~quitTimeout /\ ~exited)
     => (~allowQuit /\ (BeforeQuit => ~exited'))]_vars

====
